---- MODULE Spec2Model ----
(***************************************************************************)
(* Model of src/index.js: validateArticleSorting().                        *)
(*                                                                         *)
(* One run of the bot: launch a browser, open a page, navigate to the      *)
(* "newest" listing, accumulate articles page by page until enough are     *)
(* collected, sort the first Target of them by timestamp (newest first),   *)
(* print them, re-check the order, and close the browser.                  *)
(*                                                                         *)
(* The sample size is 100 in the source (lines 38, 70, 80); the model      *)
(* scales it down to Target so that the loop can be explored exhaustively. *)
(***************************************************************************)
EXTENDS Integers, Sequences, FiniteSets, TLC

\* Sample size: the literal 100 of lines 38, 70 and 80, scaled down.
Target == 3

\* Cap on the number of page.evaluate calls of one run (the source's loop is
\* unbounded when pages keep yielding too few articles).
MaxExtract == 3

VARIABLES
    pc,          \* position of validateArticleSorting
    browser,     \* "none" | "open" | "closed": the chromium instance
    closeCalls,  \* number of browser.close() calls
    doc,         \* rows (tr.athing) currently present in the page's DOM
    pending,     \* rows of the current document not yet loaded into the DOM
    articles,    \* const articles = [] (line 36)
    extractions, \* number of completed page.evaluate calls
    clicks,      \* number of page.click(".morelink") calls issued
    top100,      \* const top100 (line 80)
    listing,     \* the lines printed by the forEach of lines 88-91
    events,      \* logger.success / logger.error lines, in order
    error        \* the error caught at line 106 ("none" when nothing thrown)

vars == <<pc, browser, closeCalls, doc, pending, articles, extractions,
          clicks, top100, listing, events, error>>

-----------------------------------------------------------------------------
\* JavaScript numbers, as far as the program uses them: a finite number,
\* NaN or +Infinity.
Num(n) == [k |-> "num", v |-> n]
NaN == [k |-> "nan", v |-> 0]
Infinity == [k |-> "inf", v |-> 0]

\* One tr.athing row of the page as the extraction sees it:
\*   titleEl : row.querySelector(".titleline > a") is not null
\*   text    : titleEl.textContent.trim()
\*   ageEl   : the ".age > a" link under the score's parent is found
\*   digits  : what ageEl.href.match(/\d+/) finds: "none" (no digits),
\*             "num" (a digit string, value secs) or "huge" (a digit string
\*             beyond the range of a double)
Row(titleEl, text, ageEl, digits, secs) ==
    [titleEl |-> titleEl, text |-> text, ageEl |-> ageEl,
     digits |-> digits, secs |-> secs]

Rows ==
    { Row(TRUE, "a", TRUE, "num", 1),
      Row(TRUE, "b", TRUE, "num", 2),
      Row(TRUE, "c", TRUE, "num", 3),
      Row(TRUE, "", TRUE, "num", 2),
      Row(TRUE, "d", TRUE, "none", 0),
      Row(TRUE, "e", TRUE, "huge", 0),
      Row(FALSE, "", TRUE, "num", 1),
      Row(TRUE, "f", FALSE, "none", 0) }

\* The documents the site can serve: up to two rows each.
Pages ==
    {<<>>} \cup { <<r>> : r \in Rows } \cup { <<r, s>> : r \in Rows, s \in Rows }

-----------------------------------------------------------------------------
\* parseInt(ageEl.href.match(/\d+/)?.[0])
ParseInt(row) ==
    CASE row.digits = "none" -> NaN
      [] row.digits = "huge" -> Infinity
      [] OTHER -> Num(row.secs)

\* x * 1000
TimesThousand(x) ==
    IF x.k = "num" THEN Num(x.v * 1000) ELSE x

\* isNaN(x)
IsNaN(x) == x.k = "nan"

\* const timestamp = parseInt(...) * 1000
Timestamp(row) == TimesThousand(ParseInt(row))

\* if (titleEl && ageEl)
HasElements(row) == row.titleEl /\ row.ageEl

\* if (!isNaN(timestamp))
TimestampOk(row) == ~IsNaN(Timestamp(row))

\* The row is pushed to results.
Admitted(row) == HasElements(row) /\ TimestampOk(row)

\* results.push({ title: titleEl.textContent.trim(), timestamp })
Article(row) == [title |-> row.text, timestamp |-> Timestamp(row)]

\* The body of page.evaluate: the articles of the rows present in the DOM.
RECURSIVE Evaluate(_)
Evaluate(rows) ==
    IF rows = <<>> THEN <<>>
    ELSE LET rest == Evaluate(Tail(rows))
         IN  IF Admitted(Head(rows)) THEN <<Article(Head(rows))>> \o rest
             ELSE rest

\* Variant: a push that skips articles already collected.
RECURSIVE PushUnique(_, _)
PushUnique(arr, new) ==
    IF new = <<>> THEN arr
    ELSE IF \E i \in 1..Len(arr) : arr[i] = Head(new)
         THEN PushUnique(arr, Tail(new))
         ELSE PushUnique(Append(arr, Head(new)), Tail(new))

\* articles.push(...newArticles)
Push(arr, new) == arr \o new

\* while (articles.length < 100)
LoopCond(arr) == Len(arr) < Target

\* Variant: "More" is clicked after every extraction.
StillNeededAlways(arr) == TRUE

\* if (articles.length < 100)
StillNeeded(arr) == Len(arr) < Target

-----------------------------------------------------------------------------
\* x - y on JavaScript numbers, as the sign of the result ("nan" when the
\* result is NaN): Infinity - Infinity and anything with NaN give NaN.
SignOfDifference(x, y) ==
    CASE x.k = "nan" \/ y.k = "nan" -> "nan"
      [] x.k = "inf" /\ y.k = "inf" -> "nan"
      [] x.k = "inf" -> "pos"
      [] y.k = "inf" -> "neg"
      [] x.v > y.v -> "pos"
      [] x.v < y.v -> "neg"
      [] OTHER -> "zero"

\* Variant: the comparator (a, b) => a.timestamp - b.timestamp.
ComparatorAscending(a, b) ==
    LET d == SignOfDifference(a.timestamp, b.timestamp)
    IN  CASE d = "neg" -> -1
          [] d = "pos" -> 1
          [] OTHER -> 0

\* The comparator (a, b) => b.timestamp - a.timestamp as Array.prototype.sort
\* reads it: negative puts a first, positive puts b first, NaN counts as 0.
Comparator(a, b) ==
    LET d == SignOfDifference(b.timestamp, a.timestamp)
    IN  CASE d = "neg" -> -1
          [] d = "pos" -> 1
          [] OTHER -> 0

\* x > y on JavaScript numbers.
GreaterThan(x, y) ==
    CASE x.k = "nan" \/ y.k = "nan" -> FALSE
      [] x.k = "inf" -> y.k # "inf"
      [] y.k = "inf" -> FALSE
      [] OTHER -> x.v > y.v

\* Array.prototype.sort is stable: an element goes after every element that
\* the comparator does not put behind it.
RECURSIVE Insert(_, _)
Insert(x, sorted) ==
    IF sorted = <<>> THEN <<x>>
    ELSE IF Comparator(Head(sorted), x) <= 0
         THEN <<Head(sorted)>> \o Insert(x, Tail(sorted))
         ELSE <<x>> \o sorted

\* Variant: the sample is left in arrival order.
Unsorted(arr) == arr

\* .sort((a, b) => b.timestamp - a.timestamp)
RECURSIVE Sort(_)
Sort(arr) ==
    IF arr = <<>> THEN <<>>
    ELSE Insert(arr[Len(arr)], Sort(SubSeq(arr, 1, Len(arr) - 1)))

\* Variant: the whole Collection is taken as the sample.
SliceAll(arr) == arr

\* articles.slice(0, 100)
Slice(arr) ==
    SubSeq(arr, 1, IF Len(arr) < Target THEN Len(arr) ELSE Target)

\* const top100 = articles.slice(0, 100).sort(...)
SortedSample(arr) == Sort(Slice(arr))

\* The forEach of lines 88-91: one line per article, numbered from 1.
\* new Date(timestamp): a date for a finite number, "Invalid Date" otherwise.
DateOf(x) ==
    IF x.k = "num" THEN [valid |-> TRUE, ms |-> x.v] ELSE [valid |-> FALSE, ms |-> 0]

PrintLines(sample) ==
    [i \in 1..Len(sample) |->
        [position |-> i, date |-> DateOf(sample[i].timestamp),
         title |-> sample[i].title]]

\* The loop of lines 97-104: the first index i (counted from 0, starting at
\* 1) whose article is newer than its predecessor, or 0 when there is none.
OutOfOrder(sample, i) ==
    GreaterThan(sample[i + 1].timestamp, sample[i].timestamp)

FirstViolation(sample) ==
    LET bad == { i \in 1..(Len(sample) - 1) : OutOfOrder(sample, i) }
    IN  IF bad = {} THEN 0
        ELSE CHOOSE i \in bad : \A j \in bad : i <= j

-----------------------------------------------------------------------------
Init ==
    /\ pc = "launch"
    /\ browser = "none"
    /\ closeCalls = 0
    /\ doc = <<>>
    /\ pending = <<>>
    /\ articles = <<>>
    /\ extractions = 0
    /\ clicks = 0
    /\ top100 = <<>>
    /\ listing = <<>>
    /\ events = <<>>
    /\ error = "none"

\* Where the loop goes after an iteration's last statement: back to the
\* while test of line 38.
AfterLoopTest(arr) == IF LoopCond(arr) THEN "evaluate" ELSE "sort"

\* Line 29: const browser = await chromium.launch(...). Outside the try:
\* a rejection rejects validateArticleSorting itself.
Launch ==
    /\ pc = "launch"
    /\ \/ /\ browser' = "open"
          /\ pc' = "newPage"
       \/ /\ browser' = "none"
          /\ pc' = "rejected"
    /\ UNCHANGED <<closeCalls, doc, pending, articles, extractions, clicks,
                   top100, listing, events, error>>

\* Line 30: const page = await browser.newPage(). Outside the try as well.
NewPage ==
    /\ pc = "newPage"
    /\ \/ pc' = "goto"
       \/ pc' = "rejected"
    /\ UNCHANGED <<browser, closeCalls, doc, pending, articles, extractions,
                   clicks, top100, listing, events, error>>

\* Lines 34-38: page.goto(url, { waitUntil: "networkidle" }) resolves with
\* the first document fully loaded; articles = []; the while test.
Goto ==
    /\ pc = "goto"
    /\ \/ /\ \E p \in Pages : doc' = p
          /\ pending' = <<>>
          /\ pc' = AfterLoopTest(articles)
          /\ error' = error
       \/ /\ pc' = "catch"
          /\ error' = "goto"
          /\ UNCHANGED <<doc, pending>>
    /\ UNCHANGED <<browser, closeCalls, articles, extractions, clicks, top100,
                   listing, events>>

\* The network delivers the rest of the document that is being loaded.
PageLoads ==
    /\ pending # <<>>
    /\ browser = "open"
    /\ doc' = doc \o pending
    /\ pending' = <<>>
    /\ UNCHANGED <<pc, browser, closeCalls, articles, extractions, clicks,
                   top100, listing, events, error>>

\* Lines 42-70: page.evaluate over the rows in the DOM right now, the push of
\* its result, and the test of line 70.
Extract ==
    /\ pc = "evaluate"
    /\ extractions < MaxExtract
    /\ \/ /\ articles' = Push(articles, Evaluate(doc))
          /\ extractions' = extractions + 1
          /\ pc' = IF StillNeeded(articles') THEN "click"
                   ELSE AfterLoopTest(articles')
          /\ error' = error
       \/ /\ pc' = "catch"
          /\ error' = "evaluate"
          /\ UNCHANGED <<articles, extractions>>
    /\ UNCHANGED <<browser, closeCalls, doc, pending, clicks, top100, listing,
                   events>>

\* What the page holds when the Promise.all of lines 72-75 resolves after a
\* click that navigated to document p: waitForLoadState("networkidle") is
\* called while the old document, already idle, is still the current one, so
\* it does not wait for p; any prefix of p may be in the DOM by then.
Loaded(p) == 0..Len(p)

\* Variant: a failed click is swallowed and the loop goes on.
LoadMoreRetrying ==
    /\ pc = "click"
    /\ clicks' = clicks + 1
    /\ \/ /\ \E p \in Pages : \E k \in Loaded(p) :
                /\ doc' = SubSeq(p, 1, k)
                /\ pending' = SubSeq(p, k + 1, Len(p))
          /\ pc' = AfterLoopTest(articles)
          /\ error' = error
       \/ /\ pc' = AfterLoopTest(articles)
          /\ error' = "click"
          /\ UNCHANGED <<doc, pending>>
    /\ UNCHANGED <<browser, closeCalls, articles, extractions, top100, listing,
                   events>>

\* Lines 72-77: click "More", and back to the while test.
LoadMore ==
    /\ pc = "click"
    /\ clicks' = clicks + 1
    /\ \/ /\ \E p \in Pages : \E k \in Loaded(p) :
                /\ doc' = SubSeq(p, 1, k)
                /\ pending' = SubSeq(p, k + 1, Len(p))
          /\ pc' = AfterLoopTest(articles)
          /\ error' = error
       \/ /\ pc' = "catch"
          /\ error' = "click"
          /\ UNCHANGED <<doc, pending>>
    /\ UNCHANGED <<browser, closeCalls, articles, extractions, top100, listing,
                   events>>

\* Line 80.
SortSample ==
    /\ pc = "sort"
    /\ top100' = SortedSample(articles)
    /\ pc' = "print"
    /\ UNCHANGED <<browser, closeCalls, doc, pending, articles, extractions,
                   clicks, listing, events, error>>

\* Lines 84-94: the listing, then logger.success("Successfully validated ...").
PrintListing ==
    /\ pc = "print"
    /\ listing' = PrintLines(top100)
    /\ events' = Append(events, "validated")
    /\ pc' = "validate"
    /\ UNCHANGED <<browser, closeCalls, doc, pending, articles, extractions,
                   clicks, top100, error>>

\* Lines 96-104: the order check; a violation is thrown.
Validate ==
    /\ pc = "validate"
    /\ IF FirstViolation(top100) = 0
       THEN pc' = "finally" /\ error' = error
       ELSE pc' = "catch" /\ error' = "sorting"
    /\ UNCHANGED <<browser, closeCalls, doc, pending, articles, extractions,
                   clicks, top100, listing, events>>

\* Lines 106-108: logger.error("Validation failed: ...").
Catch ==
    /\ pc = "catch"
    /\ events' = Append(events, "failed")
    /\ pc' = "finally"
    /\ UNCHANGED <<browser, closeCalls, doc, pending, articles, extractions,
                   clicks, top100, listing, error>>

\* Lines 108-112: browser.close(), logger.success("Bot execution completed.").
Finally ==
    /\ pc = "finally"
    /\ browser' = "closed"
    /\ closeCalls' = closeCalls + 1
    /\ events' = Append(events, "completed")
    /\ pc' = "done"
    /\ UNCHANGED <<doc, pending, articles, extractions, clicks, top100,
                   listing, error>>

Next ==
    \/ Launch
    \/ NewPage
    \/ Goto
    \/ PageLoads
    \/ Extract
    \/ LoadMore
    \/ SortSample
    \/ PrintListing
    \/ Validate
    \/ Catch
    \/ Finally

Spec == Init /\ [][Next]_vars

-----------------------------------------------------------------------------
\* Vocabulary of the properties.

\* The accumulation loop has been left through its while test.
Accumulated == pc \in {"sort", "print", "validate"} \/ top100 # <<>>

\* The run is over: the function's promise has resolved or rejected.
Ended == pc \in {"done", "rejected"}

Finite(x) == x.k = "num"

\* x <= y on timestamps, read off the number line with +Infinity on top.
AtMost(x, y) ==
    \/ y.k = "inf" /\ x.k # "nan"
    \/ x.k = "num" /\ y.k = "num" /\ x.v <= y.v

Count(seq, x) == Cardinality({ i \in 1..Len(seq) : seq[i] = x })

Range(seq) == { seq[i] : i \in 1..Len(seq) }

IsPermutation(s, t) ==
    /\ Len(s) = Len(t)
    /\ \A x \in Range(s) \cup Range(t) : Count(s, x) = Count(t, x)

Descending(seq) ==
    \A i \in 1..(Len(seq) - 1) : AtMost(seq[i + 1].timestamp, seq[i].timestamp)

Occurrences(tag) == Cardinality({ i \in 1..Len(events) : events[i] = tag })

\* A raw record with a non-empty title and a finite numeric timestamp.
ValidRecord(row) ==
    /\ row.titleEl /\ row.text # ""
    /\ row.ageEl /\ row.digits = "num"

\* The items of the valid records of a batch, in order.
RECURSIVE ValidItems(_)
ValidItems(rows) ==
    IF rows = <<>> THEN <<>>
    ELSE (IF ValidRecord(Head(rows))
          THEN <<[title |-> Head(rows).text,
                  timestamp |-> Num(Head(rows).secs * 1000)]>>
          ELSE <<>>) \o ValidItems(Tail(rows))

AllValid(rows) == \A i \in 1..Len(rows) : ValidRecord(rows[i])

-----------------------------------------------------------------------------
\* C1: "More" is never clicked in a state where the Collection already holds
\* Target items: whenever the run is about to click, at least one extraction
\* has happened and the Collection is still short of Target.
C1_NoLoadMoreAtTarget ==
    pc = "click" => (extractions >= 1 /\ Len(articles) < Target)

C1_Witness ==
    clicks >= 1 /\ pc = "evaluate" /\ Len(articles) = Target - 1

\* C2: a raw record is appended to the Collection if and only if it has a
\* non-empty title and a finite numeric timestamp: every extraction appends
\* exactly the items of the valid records of the batch it read.
C2_AdmissionIff ==
    [][extractions' = extractions + 1
         => articles' = articles \o ValidItems(doc)]_vars

\* C3: when the batches are valid and "More" always works, the loop stops
\* right after the first extraction that reaches Target, every extraction
\* appends its whole batch in order, and the clicks number one less than the
\* extractions.
C3_StopsAtTarget ==
    /\ (pc \in {"evaluate", "click"} => Len(articles) < Target)
    /\ (Accumulated /\ error = "none" =>
            /\ Len(articles) >= Target
            /\ clicks = extractions - 1)

C3_Appends ==
    extractions' = extractions + 1 /\ AllValid(doc) =>
        /\ articles' = articles \o ValidItems(doc)
        /\ Len(articles') = Len(articles) + Len(doc)

C3_Accumulation == []C3_StopsAtTarget /\ [][C3_Appends]_vars

C3_Witness ==
    /\ pc = "done" /\ error = "none"
    /\ extractions = 2 /\ clicks = 1
    /\ Len(articles) = Target + 1

\* C4: when "More" fails while the Collection is short of Target, the run
\* ends with the error logged: nothing more is extracted or clicked, the
\* sample is never sorted or validated, and no success report is printed.
C4_Fatal ==
    error = "click" =>
        /\ pc \in {"catch", "finally", "done"}
        /\ Len(articles) < Target
        /\ top100 = <<>> /\ listing = <<>>
        /\ Occurrences("validated") = 0
        /\ (pc \in {"finally", "done"} => Occurrences("failed") = 1)

C4_NoRetry ==
    error = "click" => (extractions' = extractions /\ clicks' = clicks)

C4_SourceExhausted == []C4_Fatal /\ [][C4_NoRetry]_vars

C4_Witness ==
    pc = "done" /\ error = "click" /\ events = <<"failed", "completed">>

C6_BrowserReleased ==
    Ended /\ browser # "none" => (browser = "closed" /\ closeCalls = 1)

\* C7: for a sample without NaN timestamps, the sorted sample is a
\* permutation of the sample in which no item is newer than its predecessor,
\* and the order check finds no violation.
C7_SortCorrect ==
    /\ (top100 # <<>> /\ (\A i \in 1..Len(Slice(articles)) :
                              ~IsNaN(Slice(articles)[i].timestamp)) =>
            /\ IsPermutation(top100, Slice(articles))
            /\ Descending(top100)
            /\ FirstViolation(top100) = 0)
    /\ (pc = "done" /\ top100 # <<>> => error = "none")

C7_Witness ==
    /\ pc = "done"
    /\ [i \in 1..Len(Slice(articles)) |-> Slice(articles)[i].timestamp]
           = <<Num(1000), Num(3000), Num(2000)>>
    /\ [i \in 1..Len(top100) |-> top100[i].timestamp]
           = <<Num(3000), Num(2000), Num(1000)>>
    /\ events = <<"validated", "completed">>

\* C8: the sample is exactly the first Target items of the Collection: the
\* sorted sample and the listing hold Target items, a permutation of
\* Collection[0..Target-1], whatever the Collection holds beyond them, and
\* sorting leaves the Collection unchanged.
C8_FirstN ==
    top100 # <<>> =>
        /\ Len(articles) >= Target
        /\ Len(top100) = Target
        /\ IsPermutation(top100, SubSeq(articles, 1, Target))
        /\ (listing # <<>> => Len(listing) = Target)

C8_CollectionKept ==
    pc \in {"sort", "print", "validate"} => articles' = articles

C8_SampleTruncation == []C8_FirstN /\ [][C8_CollectionKept]_vars

C8_Witness ==
    /\ pc = "done"
    /\ Len(articles) = Target + 1
    /\ top100 # <<>>
    /\ articles[Target + 1] \notin Range(top100)

\* C9: when an item of the sample has a non-finite timestamp, the run reports
\* an InvalidTimestamp outcome for it and does not report success.
C9_InvalidTimestamp ==
    (pc = "done" /\ top100 # <<>>
        /\ \E i \in 1..Len(top100) : ~Finite(top100[i].timestamp)) =>
            /\ error = "invalidTimestamp"
            /\ Occurrences("validated") = 0

\* C10: an extraction begins only when the page load requested by the
\* preceding "More" click has settled.
C10_ExtractAfterSettled ==
    pc = "evaluate" => pending = <<>>

====
